---- MODULE Spec2Model ----
(***************************************************************************)
(* Model of devobs: the check-file-pair command (src/src/check_file_pair.rs)*)
(* and the assert-diff command (src/src/commands/assert_diff.rs) over a    *)
(* small filesystem.                                                       *)
(*                                                                         *)
(* Text is a sequence of atoms (strings standing for one character or one  *)
(* fixed run of characters): "/" is the path separator, "." the dot, "t"   *)
(* stands for the prefix `test_`, "p" for the extension `py`.  A file name *)
(* is a sequence of atoms without "/", a path (PathBuf) is the sequence of *)
(* its components below the root, and a path string (to_str) is the text   *)
(* with "/" before every component.                                        *)
(***************************************************************************)
EXTENDS Integers, Sequences, FiniteSets, TLC

VARIABLES fs, pc, args, files, idx, path, vars, missing_files, midx, result,
          fs0, prev, runs, listing, touch,
          adpc, adargs, hash, existing_hash, adresult, adruns, adfs0, adprev,
          adedits

vars_cfp == <<pc, args, files, idx, path, vars, missing_files, midx, result,
              fs0, prev, runs>>
vars_ad == <<adpc, adargs, hash, existing_hash, adresult, adruns, adfs0,
             adprev, adedits>>
vars_lib == <<listing, touch>>
allvars == <<fs, vars_cfp, vars_lib, vars_ad>>

\* ---------------------------------------------------------------- bounds
\* Files of the universe present when the program starts.
MaxFiles == 3
\* Consecutive invocations of a command on the same filesystem.
MaxRuns == 2
\* Patterns in one --include or --exclude list given to list_files alone.
MaxPatterns == 2
\* Consecutive invocations of assert-diff on the same hash file.
MaxAdRuns == 3
\* Changes made to the target by someone else between the invocations.
MaxEdits == 1
\* Consecutive calls of touch_file on one path.
MaxTouches == 2

\* ------------------------------------------------------------------ text
Concat(ss) == LET RECURSIVE C(_)
                  C(i) == IF i > Len(ss) THEN <<>> ELSE ss[i] \o C(i + 1)
              IN C(1)

\* The last position of atom c in s, 0 when absent.
LastIndexOf(s, c) == LET I == {i \in 1..Len(s) : s[i] = c}
                     IN IF I = {} THEN 0 ELSE CHOOSE i \in I : \A j \in I : j <= i

FirstIndexOf(s, c) == LET I == {i \in 1..Len(s) : s[i] = c}
                      IN IF I = {} THEN 0 ELSE CHOOSE i \in I : \A j \in I : i <= j

Range(s) == {s[i] : i \in 1..Len(s)}

IsPrefix(p, q) == Len(p) <= Len(q) /\ SubSeq(q, 1, Len(p)) = p

\* Order of atoms (byte order of the characters they stand for).
Alphabet == <<".", "/", "d", "h", "k", "l", "m", "p", "s", "t", "u", "w", "x",
             "y">>
Rank(c) == FirstIndexOf(Alphabet, c)

\* Lexicographic order on texts, and on paths component by component.
RECURSIVE TextLess(_, _)
TextLess(a, b) ==
    IF a = <<>> THEN b # <<>>
    ELSE IF b = <<>> THEN FALSE
    ELSE IF a[1] = b[1] THEN TextLess(Tail(a), Tail(b))
    ELSE Rank(a[1]) < Rank(b[1])

RECURSIVE PathLess(_, _)
PathLess(a, b) ==
    IF a = <<>> THEN b # <<>>
    ELSE IF b = <<>> THEN FALSE
    ELSE IF a[1] = b[1] THEN PathLess(Tail(a), Tail(b))
    ELSE TextLess(a[1], b[1])

\* The elements of a finite set of paths in ascending order.
RECURSIVE SortPaths(_)
SortPaths(S) ==
    IF S = {} THEN <<>>
    ELSE LET m == CHOOSE x \in S : \A y \in S \ {x} : PathLess(x, y)
         IN <<m>> \o SortPaths(S \ {m})

\* ------------------------------------------------------------------ paths
\* Path::to_str of an absolute path: "/" before every component.
ToStr(p) == IF p = <<>> THEN <<"/">>
            ELSE Concat([i \in 1..Len(p) |-> <<"/">> \o p[i]])

\* Path::to_str of a relative path: components joined by "/".
RelToStr(p) == IF p = <<>> THEN <<>>
               ELSE p[1] \o Concat([i \in 1..(Len(p) - 1) |-> <<"/">> \o p[i + 1]])

\* The components of a path text: split at "/", empty and "." components
\* dropped (Path::components).
RECURSIVE Components(_)
Components(s) ==
    IF s = <<>> THEN <<>>
    ELSE LET k == FirstIndexOf(s, "/")
             head == IF k = 0 THEN s ELSE SubSeq(s, 1, k - 1)
             rest == IF k = 0 THEN <<>> ELSE SubSeq(s, k + 1, Len(s))
         IN (IF head = <<>> \/ head = <<".">> THEN <<>> ELSE <<head>>)
            \o Components(rest)

Cwd == << <<"w">> >>

\* std::path::absolute(PathBuf::from(text)): a relative text is joined to the
\* current directory.
Absolute(s) == IF s # <<>> /\ s[1] = "/" THEN Components(s)
               ELSE Cwd \o Components(s)

Parent(p) == SubSeq(p, 1, Len(p) - 1)
FileName(p) == p[Len(p)]

\* Path::file_stem and Path::extension split the file name at its last dot,
\* unless the name has no dot or only a leading one: then the stem is the
\* whole name and there is no extension.
NoneText == <<"/">>
FileStem(name) == LET k == LastIndexOf(name, ".")
                  IN IF k <= 1 THEN name ELSE SubSeq(name, 1, k - 1)
Extension(name) == LET k == LastIndexOf(name, ".")
                   IN IF k <= 1 THEN NoneText ELSE SubSeq(name, k + 1, Len(name))

\* ------------------------------------------------------------- filesystem
\* fs maps every existing path to its entry: a directory, or a file with
\* its bytes.
DirEntry == [dir |-> TRUE, data |-> <<>>]
FileEntry(bytes) == [dir |-> FALSE, data |-> bytes]

Exists(f, p) == p = <<>> \/ p \in DOMAIN f
IsDir(f, p) == p = <<>> \/ (p \in DOMAIN f /\ f[p].dir)
IsFile(f, p) == p \in DOMAIN f /\ ~f[p].dir

Prefixes(p) == {SubSeq(p, 1, n) : n \in 1..Len(p)}

Put(f, p, e) == [q \in DOMAIN f \cup {p} |-> IF q = p THEN e ELSE f[q]]
Remove(f, p) == [q \in DOMAIN f \ {p} |-> f[q]]

\* std::fs::create_dir_all(p): fails when a component of p is a file,
\* otherwise every missing component becomes a directory.
CreateDirAllOk(f, p) == \A q \in Prefixes(p) : ~IsFile(f, q)
CreateDirAll(f, p) ==
    [q \in DOMAIN f \cup Prefixes(p) |-> IF q \in DOMAIN f THEN f[q] ELSE DirEntry]

\* touch_file: nothing to do when the path exists; otherwise the parent
\* directories are created, then the empty file.
TouchFileOk(f, p) == Exists(f, p) \/ CreateDirAllOk(f, Parent(p))
\* Mutant of touch_file: the parent directories, but not the file.
TouchFileDirsOnly(f, p) ==
    IF Exists(f, p) THEN f ELSE CreateDirAll(f, Parent(p))

\* Mutant of touch_file: File::create also on a file that exists.
TouchFileTruncates(f, p) ==
    IF IsDir(f, p) THEN f
    ELSE Put(CreateDirAll(f, Parent(p)), p, FileEntry(<<>>))

TouchFile(f, p) ==
    IF Exists(f, p) THEN f
    ELSE Put(CreateDirAll(f, Parent(p)), p, FileEntry(<<>>))

\* ------------------------------------------------------------------- glob
\* One component of a glob pattern against one file name: "*" matches any
\* run of atoms, "?" exactly one.
RECURSIVE NameMatch(_, _)
NameMatch(pat, name) ==
    IF pat = <<>> THEN name = <<>>
    ELSE IF pat[1] = "*"
         THEN NameMatch(Tail(pat), name)
              \/ (name # <<>> /\ NameMatch(pat, Tail(name)))
    ELSE IF pat[1] = "?"
         THEN name # <<>> /\ NameMatch(Tail(pat), Tail(name))
    ELSE name # <<>> /\ name[1] = pat[1] /\ NameMatch(Tail(pat), Tail(name))

\* A pattern (its components) against a path: the component "**" matches
\* any number of directories, zero included.
RECURSIVE PathMatch(_, _)
PathMatch(pp, p) ==
    IF pp = <<>> THEN p = <<>>
    ELSE IF pp[1] = <<"**">>
         THEN PathMatch(Tail(pp), p)
              \/ (Len(p) > 1 /\ PathMatch(pp, Tail(p)))
    ELSE p # <<>> /\ NameMatch(pp[1], p[1]) /\ PathMatch(Tail(pp), Tail(p))

\* glob(from.join(s)): the existing paths the joined pattern matches, in
\* the walk's order (entries sorted by name, a directory before its
\* content).
Glob(f, from, s) ==
    LET pp == Components(ToStr(from) \o <<"/">> \o s)
    IN SortPaths({p \in DOMAIN f : PathMatch(pp, p)})

\* expand_glob: the matches of every pattern, one pattern after the other.
ExpandGlob(f, from, patterns) ==
    Concat([i \in 1..Len(patterns) |-> Glob(f, from, patterns[i])])

\* The existing paths that at least one pattern of a list matches.
Matched(f, from, patterns) ==
    {p \in DOMAIN f : \E i \in 1..Len(patterns) :
        PathMatch(Components(ToStr(from) \o <<"/">> \o patterns[i]), p)}

\* Mutant of list_files: `all` for `any` in the retain closure.
ListFilesAll(f, from, include, exclude) ==
    LET inc == ExpandGlob(f, from, include)
        exc == ExpandGlob(f, from, exclude)
        keep(p) == ~\A i \in 1..Len(exc) : p = exc[i]
    IN SelectSeq(inc, keep)

\* list_files: the include matches equal to no exclude match (retain).
ListFiles(f, from, include, exclude) ==
    LET inc == ExpandGlob(f, from, include)
        exc == ExpandGlob(f, from, exclude)
        keep(p) == ~\E i \in 1..Len(exc) : p = exc[i]
    IN SelectSeq(inc, keep)

\* ------------------------------------------------------------------ regex
\* A --filename-regex is `^` items `$`.  An item is a literal atom, an
\* optional group around a literal atom, `( )?`, or a group around `.*`;
\* a group is named (`(?P<name> )`) or unnamed (name "").  A `.*` group is
\* the last item, so the leftmost-first match is found without backtracking.
Lit(c) == [kind |-> "lit", ch |-> c, name |-> ""]
OptGroup(n, c) == [kind |-> "opt", ch |-> c, name |-> n]
RestGroup(n) == [kind |-> "rest", ch |-> "", name |-> n]

\* Regex::captures(text): whether the regex matches, and the text of every
\* group, by item position, that took part in the match.
RECURSIVE RegexRun(_, _, _, _)
RegexRun(re, i, text, caps) ==
    IF i > Len(re) THEN [matched |-> text = <<>>, caps |-> caps]
    ELSE IF re[i].kind = "lit"
         THEN IF text # <<>> /\ text[1] = re[i].ch
              THEN RegexRun(re, i + 1, Tail(text), caps)
              ELSE [matched |-> FALSE, caps |-> caps]
    ELSE IF re[i].kind = "opt"
         THEN IF text # <<>> /\ text[1] = re[i].ch
              THEN RegexRun(re, i + 1, Tail(text), caps @@ (i :> <<text[1]>>))
              ELSE RegexRun(re, i + 1, text, caps)
    ELSE RegexRun(re, i + 1, <<>>, caps @@ (i :> text))

Captures(re, text) == RegexRun(re, 1, text, <<>>)

\* Regex::capture_names().flatten(): the named groups, in pattern order.
CaptureNames(re) == {i \in 1..Len(re) : re[i].kind # "lit" /\ re[i].name # ""}

\* ----------------------------------------------------------------- strfmt
\* A template is text in which "{", a variable name, "}" is a placeholder.
Placeholders(t) == {i \in 1..Len(t) : t[i] = "{"}

\* strfmt fails when a placeholder names a variable the mapping lacks.
StrfmtOk(t, v) == \A i \in Placeholders(t) : t[i + 1] \in DOMAIN v

RECURSIVE Strfmt(_, _)
Strfmt(t, v) ==
    IF t = <<>> THEN <<>>
    ELSE IF t[1] = "{" THEN v[t[2]] \o Strfmt(SubSeq(t, 4, Len(t)), v)
    ELSE <<t[1]>> \o Strfmt(Tail(t), v)

\* HashMap::insert: the last write for a key wins.
Insert(v, k, x) == [n \in DOMAIN v \cup {k} |-> IF n = k THEN x ELSE v[n]]

\* ------------------------------------------------- check-file-pair: a file
\* The outcome of a run: Ok(()) exits 0, a returned error exits 1 with its
\* message (kind, and the count n the message holds), a panic exits 101.
NoResult == [kind |-> "none", n |-> 0, exit |-> -1]
Success == [kind |-> "ok", n |-> 0, exit |-> 0]
Bail(k, count) == [kind |-> k, n |-> count, exit |-> 1]
Panic == [kind |-> "panic", n |-> 0, exit |-> 101]

\* base_vars: cwd, from and to as absolute path strings.
BaseVars(a) ==
    Insert(Insert(Insert(<<>>, "cwd", ToStr(Cwd)),
                  "from", ToStr(Absolute(a.from))),
           "to", ToStr(Absolute(a.to)))

\* Mutant of relative_from: the empty parent is kept as it is.
RelativeFromRaw(from, p) ==
    RelToStr(Parent(SubSeq(p, Len(from) + 1, Len(p))))

\* relative_from: the parent of the path below `from`, "." when it is empty.
RelativeFrom(from, p) ==
    LET rel == RelToStr(Parent(SubSeq(p, Len(from) + 1, Len(p))))
    IN IF rel = <<>> THEN <<".">> ELSE rel

\* The built-in variables of a file, written over the base variables.
BuiltinVars(base, from, p) ==
    Insert(Insert(Insert(Insert(base,
        "stem", FileStem(FileName(p))),
        "extension", Extension(FileName(p))),
        "relative_from", RelativeFrom(from, p)),
        "filename", FileName(p))

\* The named groups that took part in the match, written in pattern order.
RECURSIVE InsertCaptures(_, _, _, _)
InsertCaptures(v, re, caps, i) ==
    IF i > Len(re) THEN v
    ELSE IF i \in CaptureNames(re) /\ i \in DOMAIN caps
         THEN InsertCaptures(Insert(v, re[i].name, caps[i]), re, caps, i + 1)
    ELSE InsertCaptures(v, re, caps, i + 1)

\* Mutant of the mapping: captures first, built-ins written over them.
FileVarsCapturesFirst(a, p) ==
    IF a.filename_regex = <<>>
    THEN BuiltinVars(BaseVars(a), Absolute(a.from), p)
    ELSE BuiltinVars(InsertCaptures(BaseVars(a), a.filename_regex,
                         Captures(a.filename_regex, FileName(p)).caps, 1),
                     Absolute(a.from), p)

\* The mapping of a file whose name the regex (if any) matches: built-ins,
\* then captures.
FileVars(a, p) ==
    LET builtin == BuiltinVars(BaseVars(a), Absolute(a.from), p)
    IN IF a.filename_regex = <<>> THEN builtin
       ELSE InsertCaptures(builtin, a.filename_regex,
                           Captures(a.filename_regex, FileName(p)).caps, 1)

\* One pass of the loop body for candidate p on filesystem f: the step
\* that ends it, with the mapping and the expected path when it gets there.
ResolveFile(a, f, p) ==
    LET from == Absolute(a.from)
        none == [status |-> "error", vars |-> <<>>, path |-> <<>>]
    IN IF Extension(FileName(p)) = NoneText THEN none
       ELSE IF ~IsPrefix(from, p) \/ Len(p) = Len(from) THEN none
       ELSE IF a.filename_regex # <<>>
               /\ ~Captures(a.filename_regex, FileName(p)).matched
            THEN [none EXCEPT !.status = "panic"]
       ELSE LET v == FileVars(a, p)
            IN IF ~StrfmtOk(a.expect, v) THEN [none EXCEPT !.vars = v]
               ELSE LET rp == Absolute(Strfmt(a.expect, v))
                    IN [status |-> IF Exists(f, rp) THEN "exists" ELSE "missing",
                        vars |-> v, path |-> rp]

\* ---------------------------------------------------------------- inputs
Src == <<"/", "s">>
Tests == <<"/", "d">>
MainPy == << <<"s">>, <<"m", ".", "p">> >>
LoggerPy == << <<"s">>, <<"u">>, <<"h">>, <<"l", ".", "p">> >>
Makefile == << <<"s">>, <<"k">> >>
TestMainPy == << <<"d">>, <<"t", "m", ".", "p">> >>
Universe == {MainPy, LoggerPy, Makefile, TestMainPy}

\* The filesystem holding the files of S (empty, as the tests create them)
\* and their directories.
FsOf(S) ==
    LET dirs == UNION {Prefixes(Parent(p)) : p \in S}
    IN [q \in S \cup dirs |-> IF q \in S THEN FileEntry(<<>>) ELSE DirEntry]

InitFs == {FsOf(S) : S \in {T \in SUBSET Universe : Cardinality(T) <= MaxFiles}}

RecPy == <<"**", "/", "*", ".", "p">>
TopPy == <<"*", ".", "p">>
RecAll == <<"**", "/", "*">>
RecLogger == <<"**", "/", "l", "*">>
Includes == {<<RecPy>>, <<TopPy, RecPy>>, <<RecAll>>}
Excludes == {<<>>, <<RecLogger>>}

\* --expect: the default, the tests' `test_` template, one path for every
\* file, an undefined variable, a template below `from`, and one below the
\* file itself.
ExpectDefault == <<"{", "to", "}", "/", "{", "relative_from", "}", "/",
                   "{", "filename", "}">>
ExpectTest == <<"{", "to", "}", "/", "{", "relative_from", "}", "/", "t",
                "{", "filename", "}">>
ExpectConst == <<"{", "to", "}", "/", "x", ".", "p">>
ExpectUnknown == <<"{", "to", "}", "/", "{", "x", "}">>
ExpectInFrom == <<"{", "from", "}", "/", "{", "relative_from", "}", "/", "t",
                  "{", "filename", "}">>
ExpectBelowFile == <<"{", "from", "}", "/", "{", "relative_from", "}", "/",
                     "{", "filename", "}", "/", "x", ".", "p">>
\* A template without file name: `{to}/x/{relative_from}`.
ExpectRel == <<"{", "to", "}", "/", "x", "/", "{", "relative_from", "}">>
Expects == {ExpectDefault, ExpectTest, ExpectConst, ExpectUnknown,
            ExpectInFrom, ExpectBelowFile, ExpectRel}

\* --filename-regex: absent, `^t(?P<filename>.*)$` (the tests' backward
\* matching), `^(?P<relative_from>t)?(.*)$`.
NoRegex == <<>>
RegexTest == <<Lit("t"), RestGroup("filename")>>
RegexOpt == <<OptGroup("relative_from", "t"), RestGroup("")>>
Regexes == {NoRegex, RegexTest, RegexOpt}

Roots == {[from |-> Src, to |-> Tests], [from |-> Tests, to |-> Src]}

Args == [root : Roots, include : Includes, exclude : Excludes,
         expect : Expects, filename_regex : Regexes,
         create_if_not_exists : BOOLEAN, dry_run : BOOLEAN]

MkArgs(r) == [from |-> r.root.from, to |-> r.root.to, include |-> r.include,
              exclude |-> r.exclude, expect |-> r.expect,
              filename_regex |-> r.filename_regex,
              create_if_not_exists |-> r.create_if_not_exists,
              dry_run |-> r.dry_run]

NoArgs == [from |-> <<>>, to |-> <<>>, include |-> <<>>, exclude |-> <<>>,
           expect |-> <<>>, filename_regex |-> <<>>,
           create_if_not_exists |-> FALSE, dry_run |-> FALSE]

NoPrev == [args |-> NoArgs, result |-> NoResult, fs0 |-> <<>>,
           files |-> <<>>, missing_files |-> <<>>]

\* ------------------------------------------------ check-file-pair: command
\* Mutant of the branch after the loop: --create-if-not-exists not looked at.
AfterLoopScaffolds(missing, create) ==
    IF missing = <<>> THEN "ok" ELSE "scaffold"

\* What follows the loop: success, the missing-files error, or scaffolding.
AfterLoop(missing, create) ==
    IF missing = <<>> THEN "ok"
    ELSE IF ~create THEN "missing"
    ELSE "scaffold"

\* Mutant of the dry-run test: touch_file whatever the flag.
TouchesAlways(dry_run) == TRUE

\* Whether the scaffolding loop calls touch_file for a missing file.
Touches(dry_run) == ~dry_run

\* Mutant of the missing-files error: the distinct missing paths counted.
MissingErrorDistinct(missing) == Bail("missing", Cardinality(Range(missing)))

\* bail!("There are {} missing files. ..", missing_files.len())
MissingError(missing) == Bail("missing", Len(missing))

\* Mutant of the created-files error: creation reported as success.
CreatedOk(missing) == Success

\* bail!("Created {} missing files.", missing_files.len())
CreatedError(missing) == Bail("created", Len(missing))

\* The first lines of command: options resolved, the candidates listed.
Begin(a) ==
    /\ args' = a
    /\ files' = ListFiles(fs, Absolute(a.from), a.include, a.exclude)
    /\ idx' = 1
    /\ missing_files' = <<>>
    /\ midx' = 1
    /\ path' = <<>>
    /\ vars' = <<>>
    /\ result' = NoResult
    /\ fs0' = fs
    /\ runs' = runs + 1
    /\ pc' = "resolve"
    /\ UNCHANGED fs

\* A first invocation, with any options.
CfpStart ==
    /\ pc = "idle"
    /\ \E r \in Args : Begin(MkArgs(r))
    /\ prev' = prev
    /\ UNCHANGED <<vars_lib, vars_ad>>

\* The next invocation: the same options, but for the two flags.
CfpRerun ==
    /\ pc = "done"
    /\ runs < MaxRuns
    /\ \E c \in BOOLEAN, d \in BOOLEAN :
          Begin([args EXCEPT !.create_if_not_exists = c, !.dry_run = d])
    /\ prev' = [args |-> args, result |-> result, fs0 |-> fs0,
                files |-> files, missing_files |-> missing_files]
    /\ UNCHANGED <<vars_lib, vars_ad>>

\* Mutant of the loop body: a missing file is created as soon as it is
\* found.
CfpResolveEager ==
    /\ pc = "resolve"
    /\ idx <= Len(files)
    /\ LET r == ResolveFile(args, fs, files[idx])
       IN /\ path' = files[idx]
          /\ vars' = r.vars
          /\ IF r.status = "error"
             THEN /\ result' = Bail("error", 0)
                  /\ pc' = "done"
                  /\ UNCHANGED <<fs, idx, missing_files>>
             ELSE IF r.status = "panic"
             THEN /\ result' = Panic
                  /\ pc' = "done"
                  /\ UNCHANGED <<fs, idx, missing_files>>
             ELSE /\ idx' = idx + 1
                  /\ missing_files' = IF r.status = "missing"
                                        THEN Append(missing_files, r.path)
                                        ELSE missing_files
                  /\ fs' = IF /\ r.status = "missing"
                              /\ args.create_if_not_exists
                              /\ ~args.dry_run
                              /\ TouchFileOk(fs, r.path)
                           THEN TouchFile(fs, r.path) ELSE fs
                  /\ UNCHANGED <<pc, result>>
    /\ UNCHANGED <<args, files, midx, fs0, prev, runs, vars_lib, vars_ad>>

\* The loop body for the next candidate.
CfpResolve ==
    /\ pc = "resolve"
    /\ idx <= Len(files)
    /\ LET r == ResolveFile(args, fs, files[idx])
       IN /\ path' = files[idx]
          /\ vars' = r.vars
          /\ IF r.status = "error"
             THEN /\ result' = Bail("error", 0)
                  /\ pc' = "done"
                  /\ UNCHANGED <<idx, missing_files>>
             ELSE IF r.status = "panic"
             THEN /\ result' = Panic
                  /\ pc' = "done"
                  /\ UNCHANGED <<idx, missing_files>>
             ELSE /\ idx' = idx + 1
                  /\ missing_files' = IF r.status = "missing"
                                        THEN Append(missing_files, r.path)
                                        ELSE missing_files
                  /\ UNCHANGED <<pc, result>>
    /\ UNCHANGED <<fs, args, files, midx, fs0, prev, runs, vars_lib, vars_ad>>

\* After the loop: Ok, the missing-files error, or on to scaffolding.
CfpReport ==
    /\ pc = "resolve"
    /\ idx > Len(files)
    /\ LET next == AfterLoop(missing_files, args.create_if_not_exists)
       IN IF next = "ok"
          THEN result' = Success /\ pc' = "done"
          ELSE IF next = "missing"
          THEN result' = MissingError(missing_files) /\ pc' = "done"
          ELSE result' = result /\ pc' = "scaffold"
    /\ UNCHANGED <<fs, args, files, idx, path, vars, missing_files, midx, fs0,
                   prev, runs, vars_lib, vars_ad>>

\* Mutant of the scaffolding loop: a failure is passed over and the next
\* missing file tried.
CfpScaffoldBestEffort ==
    /\ pc = "scaffold"
    /\ midx <= Len(missing_files)
    /\ fs' = IF Touches(args.dry_run) /\ TouchFileOk(fs, missing_files[midx])
             THEN TouchFile(fs, missing_files[midx]) ELSE fs
    /\ midx' = midx + 1
    /\ UNCHANGED <<pc, result>>
    /\ UNCHANGED <<args, files, idx, path, vars, missing_files, fs0, prev, runs,
                   vars_lib, vars_ad>>

\* The scaffolding loop body for the next missing file.
CfpScaffold ==
    /\ pc = "scaffold"
    /\ midx <= Len(missing_files)
    /\ IF ~Touches(args.dry_run)
       THEN midx' = midx + 1 /\ UNCHANGED <<fs, pc, result>>
       ELSE IF TouchFileOk(fs, missing_files[midx])
       THEN /\ fs' = TouchFile(fs, missing_files[midx])
            /\ midx' = midx + 1
            /\ UNCHANGED <<pc, result>>
       ELSE /\ result' = Bail("io", 0)
            /\ pc' = "done"
            /\ UNCHANGED <<fs, midx>>
    /\ UNCHANGED <<args, files, idx, path, vars, missing_files, fs0, prev, runs,
                   vars_lib, vars_ad>>

\* After the scaffolding loop: the created-files error.
CfpCreated ==
    /\ pc = "scaffold"
    /\ midx > Len(missing_files)
    /\ result' = CreatedError(missing_files)
    /\ pc' = "done"
    /\ UNCHANGED <<fs, args, files, idx, path, vars, missing_files, midx, fs0,
                   prev, runs, vars_lib, vars_ad>>

NoListing == [from |-> <<>>, include |-> <<>>, exclude |-> <<>>,
              included |-> <<>>, excluded |-> <<>>, out |-> <<>>]
\* touch_file not called yet.
NoTouch == [path |-> <<>>, calls |-> 0, ok |-> FALSE, before |-> <<>>]

NoAdArgs == [target |-> <<>>, include |-> <<>>, exclude |-> <<>>,
             hash_file |-> <<>>, preserve_hash_file |-> FALSE]

InitCfp ==
    /\ pc = "idle"
    /\ args = NoArgs
    /\ files = <<>>
    /\ idx = 1
    /\ path = <<>>
    /\ vars = <<>>
    /\ missing_files = <<>>
    /\ midx = 1
    /\ result = NoResult
    /\ fs0 = <<>>
    /\ prev = NoPrev
    /\ runs = 0

\* The assert-diff invocations that may run.
Procs == {1, 2}

NoAdPrev == [result |-> NoResult, fs0 |-> <<>>, fs1 |-> <<>>]

InitAd ==
    /\ adpc = [p \in Procs |-> "idle"]
    /\ adargs = NoAdArgs
    /\ hash = [p \in Procs |-> <<>>]
    /\ existing_hash = [p \in Procs |-> <<>>]
    /\ adresult = [p \in Procs |-> NoResult]
    /\ adruns = 0
    /\ adfs0 = <<>>
    /\ adprev = NoAdPrev
    /\ adedits = 0

Init ==
    /\ fs \in InitFs
    /\ InitCfp
    /\ listing = NoListing
    /\ touch = NoTouch
    /\ InitAd

Next == CfpStart \/ CfpResolve \/ CfpReport \/ CfpScaffold \/ CfpCreated
        \/ CfpRerun

Spec == Init /\ [][Next]_allvars

\* ------------------------------------------------- list_files on its own
MainLit == <<"m", ".", "p">>
ListPatterns == {TopPy, RecPy, RecAll, RecLogger, MainLit}
PatternLists == UNION {[1..n -> ListPatterns] : n \in 0..MaxPatterns}

\* One call of list_files, with the two expansions it is computed from.
ListCall ==
    /\ listing = NoListing
    /\ \E r \in Roots, inc \in PatternLists, exc \in PatternLists :
          listing' = [from |-> r.from, include |-> inc, exclude |-> exc,
                      included |-> ExpandGlob(fs, Absolute(r.from), inc),
                      excluded |-> ExpandGlob(fs, Absolute(r.from), exc),
                      out |-> ListFiles(fs, Absolute(r.from), inc, exc)]
    /\ UNCHANGED <<fs, vars_cfp, vars_ad, touch>>

NextList == ListCall

SpecList == Init /\ [][NextList]_allvars

\* ------------------------------------------------------------ assert-diff
BUFFER_SIZE == 8192

\* The bytes of the model, by value: the hex digits, then the letters.
ByteTable == <<"0", "1", "2", "3", "4", "5", "6", "7", "8", "9",
               "a", "b", "c", "d", "e", "f", "x", "y">>
Code(c) == FirstIndexOf(ByteTable, c)

\* The hasher's state is a number below HashModulus; one write mixes one
\* number into it (a stand-in for DefaultHasher, whose 64-bit SipHash is
\* out of reach of the model's integers).
HashModulus == 65536
HashMul == 31
Mix(h, x) == (h * HashMul + x + 1) % HashModulus

\* buffer[..bytes_read].hash(&mut hasher): a slice writes its length, then
\* its bytes.
RECURSIVE MixBytes(_, _)
MixBytes(h, bytes) ==
    IF bytes = <<>> THEN h ELSE MixBytes(Mix(h, Code(bytes[1])), Tail(bytes))

HashChunk(h, chunk) == MixBytes(Mix(h, Len(chunk)), chunk)

\* Mutant of the read loop: the read that returns 0 is hashed as well.
RECURSIVE HashFileVisits(_, _)
HashFileVisits(h, data) ==
    IF data = <<>> THEN HashChunk(h, <<>>)
    ELSE LET n == IF Len(data) < BUFFER_SIZE THEN Len(data) ELSE BUFFER_SIZE
         IN HashFileVisits(HashChunk(h, SubSeq(data, 1, n)),
                           SubSeq(data, n + 1, Len(data)))

\* The read loop of one file: chunks of at most BUFFER_SIZE bytes until a
\* read returns 0.
RECURSIVE HashFile(_, _)
HashFile(h, data) ==
    IF data = <<>> THEN h
    ELSE LET n == IF Len(data) < BUFFER_SIZE THEN Len(data) ELSE BUFFER_SIZE
         IN HashFile(HashChunk(h, SubSeq(data, 1, n)),
                     SubSeq(data, n + 1, Len(data)))

\* format!("{:x}", hash): lowercase hex digits, no leading zero.
RECURSIVE ToHex(_)
ToHex(n) ==
    IF n < 16 THEN <<ByteTable[n + 1]>>
    ELSE ToHex(n \div 16) \o <<ByteTable[(n % 16) + 1]>>

\* File::open then read: fails on a path that is missing or a directory.
Readable(f, p) == IsFile(f, p)

\* The loop over the listed paths, from position i with hasher state h: the
\* first unreadable path ends it with the error.
RECURSIVE HashPaths(_, _, _, _)
HashPaths(f, paths, i, h) ==
    IF i > Len(paths) THEN [ok |-> TRUE, hex |-> ToHex(h)]
    ELSE IF ~Readable(f, paths[i]) THEN [ok |-> FALSE, hex |-> <<>>]
    ELSE HashPaths(f, paths, i + 1, HashFile(h, f[paths[i]].data))

\* calculate_directory_hash
CalculateDirectoryHash(f, target, include, exclude) ==
    HashPaths(f, ListFiles(f, target, include, exclude), 1, 0)

\* std::fs::write creates or truncates the file; it fails when the parent
\* is no directory or the path is one.
WriteOk(f, p) == p # <<>> /\ IsDir(f, Parent(p)) /\ ~IsDir(f, p)

\* --hash-file: outside the target (the default is in the temporary
\* directory), or inside it.
Tmp == << <<"w">> >>
HashOutside == <<"/", "w", "/", "h">>
HashInside == <<"/", "s", "/", "h">>
DataA == << <<"s">>, <<"x", ".", "p">> >>
DataB == << <<"s">>, <<"y", ".", "p">> >>
DataE == << <<"s">>, <<"m", ".", "p">> >>
DataSub == << <<"s">>, <<"u">>, <<"l", ".", "p">> >>
AdUniverse == {DataA, DataB, DataE, DataSub}
Content(p) == IF p = DataA THEN <<"x">>
              ELSE IF p = DataB THEN <<"y", "x">>
              ELSE IF p = DataSub THEN <<"x">>
              ELSE <<>>

\* The target directory and the temporary directory exist; the target
\* holds the files of S.
AdFsOf(S) ==
    LET dirs == UNION {Prefixes(Parent(p)) : p \in S} \cup {Absolute(Src), Tmp}
    IN [q \in S \cup dirs |-> IF q \in S THEN FileEntry(Content(q)) ELSE DirEntry]

InitAdFs == {AdFsOf(S) : S \in {T \in SUBSET AdUniverse : Cardinality(T) <= MaxFiles}}

AdArgs == [target : {Src, Tests}, include : {<<RecAll>>, <<RecPy>>},
           exclude : {<<>>, <<RecLogger>>},
           hash_file : {HashOutside, HashInside},
           preserve_hash_file : BOOLEAN]

\* command, to the directory hash: the target must exist, the hash is
\* computed.
AdBegin(p, a) ==
    /\ adargs' = a
    /\ adfs0' = fs
    /\ adruns' = adruns + 1
    /\ existing_hash' = [existing_hash EXCEPT ![p] = <<>>]
    /\ IF ~Exists(fs, Absolute(a.target))
       THEN /\ adresult' = [adresult EXCEPT ![p] = Bail("target", 0)]
            /\ adpc' = [adpc EXCEPT ![p] = "done"]
            /\ hash' = [hash EXCEPT ![p] = <<>>]
       ELSE LET h == CalculateDirectoryHash(fs, Absolute(a.target),
                                            a.include, a.exclude)
            IN IF ~h.ok
               THEN /\ adresult' = [adresult EXCEPT ![p] = Bail("io", 0)]
                    /\ adpc' = [adpc EXCEPT ![p] = "done"]
                    /\ hash' = [hash EXCEPT ![p] = <<>>]
               ELSE /\ adresult' = [adresult EXCEPT ![p] = NoResult]
                    /\ adpc' = [adpc EXCEPT ![p] = "check"]
                    /\ hash' = [hash EXCEPT ![p] = h.hex]
    /\ UNCHANGED <<fs, vars_cfp, vars_lib, adedits>>

\* A first invocation, with any options.
AdStart(p) ==
    /\ adpc[p] = "idle"
    /\ adruns = 0
    /\ \E a \in AdArgs : AdBegin(p, a)
    /\ adprev' = adprev

\* The next invocation: the same options, but for --preserve-hash-file.
AdRerun(p) ==
    /\ adpc[p] = "done"
    /\ adruns < MaxAdRuns
    /\ \E k \in BOOLEAN : AdBegin(p, [adargs EXCEPT !.preserve_hash_file = k])
    /\ adprev' = [result |-> adresult[p], fs0 |-> adfs0, fs1 |-> fs]

\* Mutant of the test of the hash file: written whether it exists or not.
AdCheckWrites(p) ==
    /\ adpc[p] = "check"
    /\ adpc' = [adpc EXCEPT ![p] = "write"]
    /\ UNCHANGED <<fs, vars_cfp, vars_lib, adargs, hash, existing_hash,
                   adresult, adruns, adfs0, adprev, adedits>>

\* if !hash_file.exists()
AdCheck(p) ==
    /\ adpc[p] = "check"
    /\ adpc' = [adpc EXCEPT ![p] =
                   IF Exists(fs, Absolute(adargs.hash_file)) THEN "read"
                   ELSE "write"]
    /\ UNCHANGED <<fs, vars_cfp, vars_lib, adargs, hash, existing_hash,
                   adresult, adruns, adfs0, adprev, adedits>>

\* std::fs::write(&hash_file, hash)?, first half: File::create makes the
\* file, or empties the one that is there.
AdWrite(p) ==
    /\ adpc[p] = "write"
    /\ LET hf == Absolute(adargs.hash_file)
       IN IF WriteOk(fs, hf)
          THEN /\ fs' = Put(fs, hf, FileEntry(<<>>))
               /\ adresult' = adresult
               /\ adpc' = [adpc EXCEPT ![p] = "writing"]
          ELSE /\ fs' = fs
               /\ adresult' = [adresult EXCEPT ![p] = Bail("io", 0)]
               /\ adpc' = [adpc EXCEPT ![p] = "done"]
    /\ UNCHANGED <<vars_cfp, vars_lib, adargs, hash, existing_hash, adruns,
                   adfs0, adprev, adedits>>

\* Mutant of write_all: the hash added after what the file holds.
AdWriteAllAppends(p) ==
    /\ adpc[p] = "writing"
    /\ LET hf == Absolute(adargs.hash_file)
       IN fs' = IF IsFile(fs, hf)
                THEN Put(fs, hf, FileEntry(fs[hf].data \o hash[p])) ELSE fs
    /\ adresult' = [adresult EXCEPT ![p] = Success]
    /\ adpc' = [adpc EXCEPT ![p] = "done"]
    /\ UNCHANGED <<vars_cfp, vars_lib, adargs, hash, existing_hash, adruns,
                   adfs0, adprev, adedits>>

\* std::fs::write, second half: write_all of the hash into the open file
\* (which reaches no path when the file was removed meanwhile); Ok(()).
AdWriteAll(p) ==
    /\ adpc[p] = "writing"
    /\ LET hf == Absolute(adargs.hash_file)
       IN fs' = IF IsFile(fs, hf) THEN Put(fs, hf, FileEntry(hash[p])) ELSE fs
    /\ adresult' = [adresult EXCEPT ![p] = Success]
    /\ adpc' = [adpc EXCEPT ![p] = "done"]
    /\ UNCHANGED <<vars_cfp, vars_lib, adargs, hash, existing_hash, adruns,
                   adfs0, adprev, adedits>>

\* read_to_string(&hash_file)?, then the comparison.
AdRead(p) ==
    /\ adpc[p] = "read"
    /\ LET hf == Absolute(adargs.hash_file)
       IN IF ~Readable(fs, hf)
          THEN /\ adresult' = [adresult EXCEPT ![p] = Bail("io", 0)]
               /\ adpc' = [adpc EXCEPT ![p] = "done"]
               /\ UNCHANGED existing_hash
          ELSE /\ existing_hash' = [existing_hash EXCEPT ![p] = fs[hf].data]
               /\ IF hash[p] # fs[hf].data
                  THEN /\ adresult' = [adresult EXCEPT ![p] = Bail("drift", 0)]
                       /\ adpc' = [adpc EXCEPT ![p] = "done"]
                  ELSE /\ adresult' = adresult
                       /\ adpc' = [adpc EXCEPT ![p] = "matched"]
    /\ UNCHANGED <<fs, vars_cfp, vars_lib, adargs, hash, adruns, adfs0, adprev,
                   adedits>>

\* The hash file deleted unless preserved, then Ok(()).
AdFinish(p) ==
    /\ adpc[p] = "matched"
    /\ LET hf == Absolute(adargs.hash_file)
       IN IF adargs.preserve_hash_file
          THEN /\ fs' = fs
               /\ adresult' = [adresult EXCEPT ![p] = Success]
          ELSE IF IsFile(fs, hf)
          THEN /\ fs' = Remove(fs, hf)
               /\ adresult' = [adresult EXCEPT ![p] = Success]
          ELSE /\ fs' = fs
               /\ adresult' = [adresult EXCEPT ![p] = Bail("io", 0)]
    /\ adpc' = [adpc EXCEPT ![p] = "done"]
    /\ UNCHANGED <<vars_cfp, vars_lib, adargs, hash, existing_hash, adruns,
                   adfs0, adprev, adedits>>

\* The filesystems one change of the target leads to: the empty file added
\* or removed, a file given other content, a file renamed to a name that
\* sorts where the old one did.
AdEdits(f) ==
    (IF ~Exists(f, DataE) THEN {Put(f, DataE, FileEntry(<<>>))} ELSE {})
    \cup (IF IsFile(f, DataE) THEN {Remove(f, DataE)} ELSE {})
    \cup (IF IsFile(f, DataA)
          THEN {Put(f, DataA, FileEntry(Content(DataB)))} ELSE {})
    \cup (IF IsFile(f, DataA) /\ ~Exists(f, DataB)
          THEN {Put(Remove(f, DataA), DataB, f[DataA])} ELSE {})

\* The target changed by someone else between two invocations.
AdEdit ==
    /\ adpc[1] = "done"
    /\ adruns < MaxAdRuns
    /\ adedits < MaxEdits
    /\ adedits' = adedits + 1
    /\ fs' \in AdEdits(fs) \ {fs}
    /\ UNCHANGED <<vars_cfp, vars_lib, adpc, adargs, hash, existing_hash,
                   adresult, adruns, adfs0, adprev>>

InitAssertDiff ==
    /\ fs \in InitAdFs
    /\ InitCfp
    /\ listing = NoListing
    /\ touch = NoTouch
    /\ InitAd

\* One invocation at a time.
NextAssertDiff ==
    \/ AdStart(1)
    \/ AdRerun(1)
    \/ AdCheck(1)
    \/ AdWrite(1)
    \/ AdWriteAll(1)
    \/ AdRead(1)
    \/ AdFinish(1)
    \/ AdEdit

SpecAssertDiff == InitAssertDiff /\ [][NextAssertDiff]_allvars

\* --------------------------------------- assert-diff: two invocations at once
\* Another invocation with the options of the one that runs already.
AdJoin(p) ==
    /\ adpc[p] = "idle"
    /\ adruns >= 1
    /\ AdBegin(p, adargs)
    /\ adprev' = adprev

\* Two invocations on one target and one hash file, their steps interleaved
\* in any order; nobody else changes the target.
NextRace ==
    \E p \in Procs :
        \/ AdStart(p)
        \/ AdJoin(p)
        \/ AdCheck(p)
        \/ AdWrite(p)
        \/ AdWriteAll(p)
        \/ AdRead(p)
        \/ AdFinish(p)

SpecRace == InitAssertDiff /\ [][NextRace]_allvars

\* ----------------------------------------------------- touch_file on its own
\* The paths touch_file is called on: files of the target (present with
\* content, or absent, with or without their directories), the target
\* directory itself, a path below a file.
TouchPaths == AdUniverse \cup {LoggerPy, Absolute(Src), DataA \o << <<"k">> >>}

\* One call of touch_file: on any path, then again on the same path.
TouchCall ==
    /\ touch.calls < MaxTouches
    /\ \E p \in IF touch.calls = 0 THEN TouchPaths ELSE {touch.path} :
          /\ touch' = [path |-> p, calls |-> touch.calls + 1,
                       ok |-> TouchFileOk(fs, p), before |-> fs]
          /\ fs' = IF TouchFileOk(fs, p) THEN TouchFile(fs, p) ELSE fs
    /\ UNCHANGED <<vars_cfp, listing, vars_ad>>

NextTouch == TouchCall

SpecTouch == InitAssertDiff /\ [][NextTouch]_allvars

\* ================================================================ claims
\* C1: list_files returns exactly the paths matched by at least one include
\* pattern and by no exclude pattern; a path matched by both is never in
\* the result, whatever the patterns' specificity or order.
C1_ExcludeWins ==
    listing # NoListing =>
        LET from == Absolute(listing.from)
            inc == Matched(fs, from, listing.include)
            exc == Matched(fs, from, listing.exclude)
        IN /\ Range(listing.out) = inc \ exc
           /\ \A i \in 1..Len(listing.out) :
                 \A j \in 1..Len(listing.excluded) :
                    listing.out[i] # listing.excluded[j]

\* A specific include (`m.p`) under a general exclude, and the reverse, with
\* a path matched by both and another one listed.
C1_Witness ==
    /\ listing # NoListing
    /\ listing.out # <<>>
    /\ Range(listing.included) \cap Range(listing.excluded) # {}
    /\ listing.include = <<RecAll>>
    /\ listing.exclude = <<RecAll, MainLit>> \/ listing.exclude = <<MainLit>>

\* The loop body's outcome for the i-th candidate on the filesystem the run
\* started from.
Resolved(i) == ResolveFile(args, fs0, files[i])

\* Something exists below `from` when the run starts.
FromNonEmpty ==
    \E p \in DOMAIN fs0 :
        IsPrefix(Absolute(args.from), p) /\ Len(p) > Len(Absolute(args.from))

\* C2 as stated: for every non-empty `from` none of whose candidates has its
\* expected counterpart present, a run without --create-if-not-exists fails
\* with `There are N missing files`, N the number of candidates listed.
\* (Runs that end in a panic are left aside: they are C14's matter.)
C2_Original ==
    (/\ pc = "done"
     /\ result.kind # "panic"
     /\ ~args.create_if_not_exists
     /\ FromNonEmpty
     /\ \A i \in 1..Len(files) : Resolved(i).status # "exists")
    => /\ result.exit # 0
       /\ result.kind = "missing"
       /\ result.n = Len(files)

\* C2 amended: when at least one candidate is listed, and every candidate
\* resolves to an expected path that does not exist, the run fails with
\* `There are N missing files`, N the number of candidates listed.
C2_MissingCount ==
    (/\ pc = "done"
     /\ ~args.create_if_not_exists
     /\ files # <<>>
     /\ \A i \in 1..Len(files) : Resolved(i).status = "missing")
    => result = [kind |-> "missing", n |-> Len(files), exit |-> 1]

\* Two candidates mapped to one expected path, both counted.
C2_Witness ==
    /\ pc = "done"
    /\ ~args.create_if_not_exists
    /\ Len(files) = 2
    /\ \A i \in 1..Len(files) : Resolved(i).status = "missing"
    /\ Resolved(1).path = Resolved(2).path
    /\ result.kind = "missing"

\* C3: a run in which every candidate is resolved exits 0 exactly when the
\* MissingSet is empty, that is when every expected path exists, with or
\* without --create-if-not-exists and --dry-run.
C3_ExitZeroIffNoneMissing ==
    (pc = "done" /\ idx > Len(files)) =>
        /\ result.exit = 0 <=> missing_files = <<>>
        /\ result.exit = 0 <=>
              \A i \in 1..Len(files) : Exists(fs0, Resolved(i).path)
        /\ result.exit \in {0, 1}

\* Success with --create-if-not-exists set and candidates to check.
C3_Witness ==
    /\ pc = "done"
    /\ idx > Len(files)
    /\ files # <<>>
    /\ args.create_if_not_exists
    /\ result.exit = 0

\* Failure after scaffolding, real or dry.
C3_WitnessCreated ==
    /\ pc = "done"
    /\ result.kind = "created"
    /\ args.dry_run

\* The files (not directories) that exist now and did not when the run
\* started.
CreatedFiles == {p \in DOMAIN fs \ DOMAIN fs0 : ~fs[p].dir}

\* The previous run scaffolded for real and reported it; this run is its
\* re-run without --create-if-not-exists.
RerunAfterCreate ==
    /\ pc = "done"
    /\ runs >= 2
    /\ prev.args.create_if_not_exists
    /\ ~prev.args.dry_run
    /\ prev.result.kind = "created"
    /\ ~args.create_if_not_exists

\* C4 as stated: after a run with --create-if-not-exists (not dry) that
\* created the missing files and failed reporting creation, the same run
\* without the flag succeeds with exit 0.  (Runs that end in a panic are
\* left aside: they are C14's matter.)
C4_Original == (RerunAfterCreate /\ result.kind # "panic") => result = Success

\* C4 amended: a real run with --create-if-not-exists whose candidates all
\* resolve, some to missing paths, and whose scaffolding meets no I/O
\* failure, fails reporting creation with every missing path now existing;
\* and the re-run without the flag succeeds with exit 0 provided it lists
\* the same candidates as the first run (nothing the first run created is
\* matched by the include patterns below `from`).
C4_CreateThenPass ==
    /\ (/\ pc = "done"
        /\ args.create_if_not_exists
        /\ ~args.dry_run
        /\ idx > Len(files)
        /\ missing_files # <<>>
        /\ result.kind # "io")
       => /\ result = [kind |-> "created", n |-> Len(missing_files), exit |-> 1]
          /\ \A i \in 1..Len(missing_files) : Exists(fs, missing_files[i])
    /\ (RerunAfterCreate /\ files = prev.files) => result = Success

\* The tests' scenario: a missing pair created by the first run, found by
\* the second.
C4_Witness ==
    /\ RerunAfterCreate
    /\ files = prev.files
    /\ files # <<>>
    /\ prev.result.n >= 1
    /\ fs # prev.fs0
    /\ result = Success

\* C5 as stated: in a real run with --create-if-not-exists that scaffolds
\* without I/O failure, the N of `Created N missing files` is the number of
\* files the run created, also when several candidates map to one path.
C5_Original ==
    (pc = "done" /\ ~args.dry_run /\ result.kind = "created")
    => result.n = Cardinality(CreatedFiles)

\* C6 as stated: a dry run with --create-if-not-exists reports what the
\* real run from the same filesystem reports (exit, message, count) and
\* leaves the filesystem as it was.  The real run here is the re-run of
\* the dry run, which starts from the filesystem the dry run started from.
RealAfterDry ==
    /\ pc = "done"
    /\ runs >= 2
    /\ prev.args.create_if_not_exists
    /\ prev.args.dry_run
    /\ args.create_if_not_exists
    /\ ~args.dry_run

C7_NoCreateNoChange ==
    (runs >= 1 /\ ~args.create_if_not_exists) => fs = fs0

\* A run without the flag that ended with missing files.
C7_Witness ==
    /\ pc = "done"
    /\ ~args.create_if_not_exists
    /\ ~args.dry_run
    /\ result.kind = "missing"
    /\ result.n >= 2

\* A candidate has been taken through variable extraction.
Extracted == path # <<>> /\ vars # <<>>

\* The named groups of the regex that took part in the match of the
\* current file name, as name -> captured text.
Participating ==
    IF args.filename_regex = <<>> THEN <<>>
    ELSE LET re == args.filename_regex
             caps == Captures(re, FileName(path)).caps
             took == CaptureNames(re) \cap DOMAIN caps
         IN [n \in {re[i].name : i \in took} |->
                caps[CHOOSE i \in took : re[i].name = n]]

\* The path of the current file's parent directory relative to `from`, as
\* text; empty for a file directly inside `from`.
ParentBelowFrom ==
    LET from == Absolute(args.from)
    IN RelToStr(SubSeq(path, Len(from) + 1, Len(path) - 1))

\* C8 as stated: for a candidate directly inside `from` the variable
\* relative_from is "." and never empty; for one in a subdirectory it is
\* the parent directory's path relative to `from`.
C8_Original ==
    Extracted =>
        /\ vars["relative_from"] # <<>>
        /\ vars["relative_from"] =
              IF ParentBelowFrom = <<>> THEN <<".">> ELSE ParentBelowFrom

\* C8 amended: the same, unless a named group `relative_from` of
\* --filename-regex took part in the match (its text then replaces the
\* built-in value, as C9 states).
C8_RelativeFromDot ==
    (Extracted /\ "relative_from" \notin DOMAIN Participating) =>
        /\ vars["relative_from"] # <<>>
        /\ vars["relative_from"] =
              IF ParentBelowFrom = <<>> THEN <<".">> ELSE ParentBelowFrom

\* A file directly inside `from`, under a regex that has a relative_from
\* group which did not take part.
C8_Witness ==
    /\ Extracted
    /\ path = MainPy
    /\ args.from = Src
    /\ args.filename_regex = RegexOpt
    /\ vars["relative_from"] = <<".">>

\* A file two directories below `from`.
C8_WitnessNested ==
    /\ Extracted
    /\ path = LoggerPy
    /\ vars["relative_from"] = <<"u", "/", "h">>

\* C9: when the regex matches, every named group that took part is written
\* after the built-ins and so replaces a built-in of its name; unnamed
\* groups and named groups that took no part leave the mapping alone.
C9_CapturesOverride ==
    (Extracted /\ args.filename_regex # <<>>) =>
        LET builtin == BuiltinVars(BaseVars(args), Absolute(args.from), path)
        IN /\ DOMAIN vars = DOMAIN builtin \cup DOMAIN Participating
           /\ \A k \in DOMAIN vars :
                 vars[k] = IF k \in DOMAIN Participating
                           THEN Participating[k] ELSE builtin[k]
           /\ (args.filename_regex = RegexTest /\ path = TestMainPy)
              => vars["filename"] = <<"m", ".", "p">>
           /\ (args.filename_regex = RegexOpt /\ path = MainPy)
              => vars = builtin

\* The tests' backward matching: `test_main.py` paired with `main.py`
\* through the group named filename, and found.
C9_Witness ==
    /\ pc = "done"
    /\ args.filename_regex = RegexTest
    /\ args.expect = ExpectDefault
    /\ path = TestMainPy
    /\ vars["filename"] = <<"m", ".", "p">>
    /\ Exists(fs, MainPy)
    /\ result = Success

\* The hash file's path.
HashFilePath == Absolute(adargs.hash_file)

\* C10 as stated: for a target directory (an empty one included) and a hash
\* file that does not exist at first, the first assert-diff run writes the
\* hash file and exits 0, and a second run straight after it, on the
\* unchanged target, exits 0 too and, without --preserve-hash-file, deletes
\* the hash file.
C10_Original ==
    /\ (/\ adruns = 1
        /\ adpc[1] = "done"
        /\ IsDir(adfs0, Absolute(adargs.target))
        /\ ~Exists(adfs0, HashFilePath))
       => /\ adresult[1] = Success
          /\ IsFile(fs, HashFilePath)
    /\ (/\ adruns = 2
        /\ adpc[1] = "done"
        /\ IsDir(adprev.fs0, Absolute(adargs.target))
        /\ ~Exists(adprev.fs0, HashFilePath)
        /\ adprev.result = Success
        /\ adfs0 = adprev.fs1)
       => /\ adresult[1] = Success
          /\ ~adargs.preserve_hash_file => ~Exists(fs, HashFilePath)

\* C11: a run that finds the hash file present and computes another hash
\* than the file holds fails with a non-zero exit reporting drift, with or
\* without --preserve-hash-file, and the hash file stays where it is with
\* its content; a run that found the hash file present never writes it.
C11_DriftKeepsHashFile ==
    /\ adresult[1].kind = "drift" =>
          /\ adpc[1] = "done"
          /\ adresult[1].exit # 0
          /\ IsFile(adfs0, HashFilePath)
          /\ IsFile(fs, HashFilePath)
          /\ fs[HashFilePath] = adfs0[HashFilePath]
          /\ fs[HashFilePath].data # hash[1]
    /\ (/\ adpc[1] = "done"
        /\ IsFile(adfs0, HashFilePath)
        /\ hash[1] # <<>>
        /\ hash[1] # adfs0[HashFilePath].data)
       => adresult[1].kind = "drift"
    /\ (adruns >= 1 /\ IsFile(adfs0, HashFilePath) /\ IsFile(fs, HashFilePath))
       => fs[HashFilePath] = adfs0[HashFilePath]

\* Drift after the target was changed, the hash file outside the target
\* and not to be preserved.
C11_Witness ==
    /\ adresult[1].kind = "drift"
    /\ adedits >= 1
    /\ adargs.hash_file = HashOutside
    /\ ~adargs.preserve_hash_file
    /\ adprev.result = Success

\* C12 as stated: (1) consecutive runs on a target nobody changed all exit
\* 0; (2) a matching run with --preserve-hash-file leaves the hash file
\* present with its content; (3) without the flag the hash file exists after
\* a successful run exactly when it was absent before the run.
C12_Original ==
    /\ (/\ adpc[1] = "done"
        /\ adedits = 0
        /\ IsDir(adfs0, Absolute(adargs.target)))
       => adresult[1] = Success
    /\ (/\ adpc[1] = "done"
        /\ adresult[1] = Success
        /\ adargs.preserve_hash_file)
       => /\ IsFile(fs, HashFilePath)
          /\ IsFile(adfs0, HashFilePath) => fs[HashFilePath] = adfs0[HashFilePath]
    /\ (/\ adpc[1] = "done"
        /\ adresult[1] = Success
        /\ ~adargs.preserve_hash_file)
       => (IsFile(fs, HashFilePath) <=> ~Exists(adfs0, HashFilePath))

\* No element occurs twice in the sequence s.
NoDuplicates(s) == \A i \in 1..Len(s) : \A j \in 1..Len(s) : s[i] = s[j] => i = j

\* C13 as stated: whatever the pattern lists, several patterns matching one
\* file included, no path occurs more than once in the result of
\* expand_glob or of list_files.
C13_Original ==
    listing # NoListing =>
        /\ NoDuplicates(listing.included)
        /\ NoDuplicates(listing.excluded)
        /\ NoDuplicates(listing.out)

\* C14 as stated: when --filename-regex does not match the file name of a
\* candidate, the run ends with a returned error (exit 1, as the other
\* errors of the run), never with an abort.
C14_Original ==
    (/\ pc = "done"
     /\ path # <<>>
     /\ idx <= Len(files)
     /\ args.filename_regex # <<>>
     /\ Extension(FileName(path)) # NoneText
     /\ ~Captures(args.filename_regex, FileName(path)).matched)
    => /\ result.kind = "error"
       /\ result.exit = 1

\* C15: a run in which variable extraction or rendering fails ends with
\* that error (exit 1) at the first candidate, in enumeration order, for
\* which it fails, and creates nothing, also with --create-if-not-exists
\* and missing pairs found before: the filesystem is the one the run
\* started from.
C15_FirstErrorNoFile ==
    /\ result.kind = "error" =>
          /\ pc = "done"
          /\ result.exit = 1
          /\ fs = fs0
          /\ idx <= Len(files)
          /\ path = files[idx]
          /\ Resolved(idx).status = "error"
          /\ \A i \in 1..(idx - 1) : Resolved(i).status \in {"exists", "missing"}
    /\ pc = "done" =>
          \A k \in 1..Len(files) :
              (/\ Resolved(k).status = "error"
               /\ \A i \in 1..(k - 1) : Resolved(i).status \in {"exists", "missing"})
              => (result = Bail("error", 0) /\ idx = k /\ fs = fs0)

\* With --create-if-not-exists, a missing pair found for the first
\* candidate and the error at the second: nothing was created.
C15_Witness ==
    /\ pc = "done"
    /\ result.kind = "error"
    /\ args.create_if_not_exists
    /\ ~args.dry_run
    /\ idx = 2
    /\ missing_files # <<>>
    /\ ~Exists(fs, missing_files[1])

\* The filesystem after touch_file on the first n paths of a list, in the
\* list's order, starting from f.
RECURSIVE Scaffolded(_, _, _)
Scaffolded(f, missing, n) ==
    IF n = 0 THEN f
    ELSE TouchFile(Scaffolded(f, missing, n - 1), missing[n])

\* C16: scaffolding creates the missing files one at a time in the order
\* of the MissingSet; when creating the k-th fails the run ends with the I/O
\* error, the files before it are there, and nothing of the k-th or of a
\* later entry was created.
C16_ScaffoldStopsAtFailure ==
    /\ (runs >= 1 /\ ~args.dry_run /\ (pc = "scaffold" \/ result.kind \in {"io", "created"}))
       => fs = Scaffolded(fs0, missing_files, midx - 1)
    /\ result.kind = "io" =>
          /\ pc = "done"
          /\ result.exit = 1
          /\ midx <= Len(missing_files)
          /\ ~TouchFileOk(fs, missing_files[midx])
          /\ \A i \in 1..(midx - 1) : Exists(fs, missing_files[i])
          /\ \A q \in DOMAIN fs \ DOMAIN fs0 :
                \E i \in 1..(midx - 1) : IsPrefix(q, missing_files[i])
          /\ \A j \in midx..Len(missing_files) :
                Exists(fs, missing_files[j])
                => \E i \in 1..(midx - 1) : missing_files[j] = missing_files[i]

\* The first missing file created, the second impossible to create (the
\* first is a file where the second needs a directory).
C16_Witness ==
    /\ pc = "done"
    /\ result.kind = "io"
    /\ midx = 2
    /\ Len(missing_files) >= 2
    /\ IsFile(fs, missing_files[1])
    /\ ~Exists(fs0, missing_files[1])
    /\ ~Exists(fs, missing_files[2])

\* C17: touch_file on a path that exists succeeds and changes nothing; on a
\* path that does not exist a successful call creates the missing parent
\* directories and the empty file and nothing else; after a successful
\* call the path exists; and a second call on the path succeeds and leaves
\* the filesystem as the first left it.
C17_TouchIdempotent ==
    touch.calls >= 1 =>
        LET p == touch.path
            b == touch.before
        IN /\ Exists(b, p) => (touch.ok /\ fs = b)
           /\ (~Exists(b, p) /\ touch.ok) =>
                 /\ fs[p] = FileEntry(<<>>)
                 /\ \A q \in Prefixes(Parent(p)) : IsDir(fs, q)
                 /\ DOMAIN fs = DOMAIN b \cup Prefixes(p)
                 /\ \A q \in DOMAIN b : fs[q] = b[q]
           /\ touch.ok => Exists(fs, p)
           /\ ~touch.ok => fs = b
           /\ (touch.calls >= 2 /\ Exists(b, p)) => (touch.ok /\ fs = b)

\* A second call on a file the first call created together with two
\* directories.
C17_Witness ==
    /\ touch.calls = 2
    /\ touch.ok
    /\ touch.path = LoggerPy
    /\ fs[LoggerPy] = FileEntry(<<>>)
    /\ fs = touch.before

\* A call on a file that has content.
C17_WitnessKept ==
    /\ touch.calls >= 1
    /\ touch.ok
    /\ IsFile(touch.before, touch.path)
    /\ fs[touch.path].data # <<>>

\* Invocation p took the branch that writes the hash file and returned Ok.
Wrote(p) ==
    adpc[p] = "done" /\ adresult[p] = Success /\ existing_hash[p] = <<>>

\* The hash file lies below the target directory.
HashFileInTarget ==
    LET t == Absolute(adargs.target)
    IN IsPrefix(t, HashFilePath) /\ Len(HashFilePath) > Len(t)

\* C18 as stated: when two interleaved invocations both saw the hash file
\* absent, wrote it and exited 0, the file holds the hash of the last
\* writer; and no interleaving on the unchanged target makes either report
\* drift.
C18_Original ==
    /\ (\A p \in Procs : Wrote(p)) =>
          /\ IsFile(fs, HashFilePath)
          /\ \E p \in Procs : fs[HashFilePath].data = hash[p]
    /\ \A p \in Procs : adresult[p].kind # "drift"

\* C18 amended: two interleaved invocations can both see the hash file
\* absent, both write it and both exit 0, and the file then holds the hash
\* they wrote; an invocation reports drift on the unchanged target only
\* when it read the hash file emptied by the other invocation's write,
\* before the hash was written into it, or when the hash file lies inside
\* the target (C10).
C18_RaceOutcomes ==
    /\ (\A p \in Procs : Wrote(p)) =>
          /\ IsFile(fs, HashFilePath)
          /\ \A p \in Procs : fs[HashFilePath].data = hash[p]
    /\ \A p \in Procs :
          adresult[p].kind = "drift" =>
              \/ existing_hash[p] = <<>>
              \/ HashFileInTarget

\* Both invocations saw the hash file absent, both wrote, both exited 0.
C18_Witness ==
    /\ \A p \in Procs : Wrote(p)
    /\ adruns = 2
    /\ IsFile(fs, HashFilePath)
    /\ fs[HashFilePath].data = hash[2]

\* An invocation that read the hash file, outside the target, while the
\* other was writing it, and reported drift.
C18_WitnessDrift ==
    /\ adargs.hash_file = HashOutside
    /\ adresult[2].kind = "drift"
    /\ existing_hash[2] = <<>>
    /\ adpc[1] = "writing"

\* What list_files returns for the options of the run on filesystem f.
AdListing(f) ==
    ListFiles(f, Absolute(adargs.target), adargs.include, adargs.exclude)

\* Every listed path can be read.
AllReadable(f) ==
    \A i \in 1..Len(AdListing(f)) : Readable(f, AdListing(f)[i])

\* The non-empty reads of a listing, in its order: the chunks of at most
\* BUFFER_SIZE bytes of every file that has bytes.
RECURSIVE ChunksOfData(_)
ChunksOfData(data) ==
    IF data = <<>> THEN <<>>
    ELSE LET n == IF Len(data) < BUFFER_SIZE THEN Len(data) ELSE BUFFER_SIZE
         IN <<SubSeq(data, 1, n)>> \o ChunksOfData(SubSeq(data, n + 1, Len(data)))

RECURSIVE ChunksOf(_, _)
ChunksOf(f, paths) ==
    IF paths = <<>> THEN <<>>
    ELSE ChunksOfData(f[paths[1]].data) \o ChunksOf(f, Tail(paths))

\* The hasher's state after the chunks, from state h.
RECURSIVE HashChunks(_, _)
HashChunks(h, chunks) ==
    IF chunks = <<>> THEN h
    ELSE HashChunks(HashChunk(h, chunks[1]), Tail(chunks))

\* The listing without its empty files.
WithoutEmpty(f, paths) ==
    LET hasBytes(q) == f[q].data # <<>>
    IN SelectSeq(paths, hasBytes)

\* C19: the directory hash is a function of the sequence of non-empty
\* reads of the listed files, in listing order, and of nothing else: it is
\* the hash of that sequence, the listing without its empty files gives the
\* same hash, and a run that follows a run which wrote the hash file, on a
\* target whose sequence of non-empty reads is the same (an empty file
\* added or removed, a file renamed in place), computes the hash it finds
\* and reports a match.
C19_HashOfChunks ==
    /\ (adruns >= 1 /\ AllReadable(fs)) =>
          LET d == CalculateDirectoryHash(fs, Absolute(adargs.target),
                                          adargs.include, adargs.exclude)
          IN /\ d.ok
             /\ d.hex = ToHex(HashChunks(0, ChunksOf(fs, AdListing(fs))))
             /\ d = HashPaths(fs, WithoutEmpty(fs, AdListing(fs)), 1, 0)
    /\ (/\ adruns >= 2
        /\ adpc[1] = "done"
        /\ adprev.result = Success
        /\ ~Exists(adprev.fs0, HashFilePath)
        /\ IsFile(adfs0, HashFilePath)
        /\ AllReadable(adprev.fs0)
        /\ AllReadable(adfs0)
        /\ ChunksOf(adprev.fs0, AdListing(adprev.fs0))
              = ChunksOf(adfs0, AdListing(adfs0)))
       => /\ adresult[1] = Success
          /\ existing_hash[1] = hash[1]

\* An empty file added to a target that holds a file with bytes, between
\* the run that wrote the hash file and the run that found it matching.
C19_Witness ==
    /\ adruns = 2
    /\ adpc[1] = "done"
    /\ adedits = 1
    /\ adresult[1] = Success
    /\ existing_hash[1] = hash[1]
    /\ IsFile(adfs0, DataE)
    /\ ~Exists(adprev.fs0, DataE)
    /\ IsFile(adfs0, DataA)
    /\ AdListing(adfs0) # AdListing(adprev.fs0)
    /\ Len(ChunksOf(adfs0, AdListing(adfs0))) = 2

\* A file renamed between the two runs, the second run matching.
C19_WitnessRename ==
    /\ adruns = 2
    /\ adpc[1] = "done"
    /\ adresult[1] = Success
    /\ existing_hash[1] = hash[1]
    /\ IsFile(adprev.fs0, DataA)
    /\ ~Exists(adfs0, DataA)
    /\ IsFile(adfs0, DataB)

\* Two files with different contents whose hash in the other order is
\* another one.
C19_WitnessOrder ==
    /\ adruns >= 1
    /\ IsFile(fs, DataA)
    /\ IsFile(fs, DataB)
    /\ fs[DataA].data # fs[DataB].data
    /\ HashPaths(fs, <<DataA, DataB>>, 1, 0) # HashPaths(fs, <<DataB, DataA>>, 1, 0)
    /\ HashPaths(fs, <<DataA, DataB>>, 1, 0).hex = hash[1]

====
